---- MODULE Spec2Model ----
(***************************************************************************)
(* Model of the three services of what-the-food:                           *)
(*   backend/image_ocr/app/main.py        structure_menu_text              *)
(*   backend/nlu_enhancement/app/main.py  the two LLM steps, the endpoint  *)
(*   backend/Image_Gen/main.py            the image service                *)
(* Text is a sequence of one-character strings, so that strip, split,      *)
(* the price pattern and substring tests are computed as the code does.    *)
(***************************************************************************)
EXTENDS Integers, Sequences, FiniteSets, TLC

VARIABLES
    \* structure_menu_text (OCR service)
    raw_text, lines, idx, current_dish_name, current_dish_desc, dishes,
    filtered_dishes, pc,
    \* process_menu_text (NLU service)
    nlu_pc, llm_calls, llm_outcomes, structure_result, prompt_result, nlu_response,
    other_handlers, llm_resent,
    \* the image service
    MODEL_ID, pipeline, server, pipeline_calls, img_responses, tasks, loop_holder

ocr_vars ==
    <<raw_text, lines, idx, current_dish_name, current_dish_desc, dishes,
      filtered_dishes, pc>>

nlu_vars ==
    <<nlu_pc, llm_calls, llm_outcomes, structure_result, prompt_result, nlu_response,
      other_handlers, llm_resent>>

img_vars ==
    <<MODEL_ID, pipeline, server, pipeline_calls, img_responses, tasks, loop_holder>>

not_ocr_vars ==
    <<nlu_vars, img_vars>>

not_nlu_vars ==
    <<ocr_vars, img_vars>>

not_img_vars ==
    <<ocr_vars, nlu_vars>>

vars ==
    <<ocr_vars, nlu_vars, img_vars>>

---------------------------------------------------------------------------
\* Bounds of the model.

\* Largest number of vocabulary lines joined into one raw text.
MaxLines ==
    3

\* Largest number of elements of an array in an LLM response.
MaxItems ==
    2

\* Number of other requests the NLU service handles on the same event loop.
MaxOtherRequests ==
    1

\* Largest number of requests the image service answers.
MaxRequests ==
    2

---------------------------------------------------------------------------
\* Characters and the str methods the code uses.

\* A text is a tuple of characters, one string per character. A character
\* that cannot be written in a string of the module is named by its code
\* point: "U+0662" is the one character ARABIC-INDIC DIGIT TWO.
\* The classes below hold the ASCII characters of each class and, for every
\* way the str methods and the regular expression of the code tell characters
\* apart, characters outside ASCII that behave that way.

\* Letters with str.isupper, and at the same index what str.lower makes of them.
UpperLetters ==
    <<"A", "B", "C", "D", "E", "F", "G", "H", "I", "J", "K", "L", "M",
      "N", "O", "P", "Q", "R", "S", "T", "U", "V", "W", "X", "Y", "Z",
      "È", "É", "Ñ", "Ω">>

LowerLetters ==
    <<"a", "b", "c", "d", "e", "f", "g", "h", "i", "j", "k", "l", "m",
      "n", "o", "p", "q", "r", "s", "t", "u", "v", "w", "x", "y", "z",
      "è", "é", "ñ", "ω">>

\* A titlecase letter: str.isalpha, not str.isupper, changed by str.lower.
TitlecaseLetters ==
    <<"ǅ">>

TitlecaseLowered ==
    <<"ǆ">>

\* Roman numerals one: str.isupper, not str.isalpha (U+2160, lowered U+2170).
UpperNumerals ==
    <<"U+2160">>

LowerNumerals ==
    <<"U+2170">>

\* LATIN CAPITAL LETTER I WITH DOT ABOVE, the one character that str.lower
\* turns into two: "i" and COMBINING DOT ABOVE.
DottedCapitalI ==
    "U+0130"

DottedCapitalILowered ==
    <<"i", "U+0307">>

\* Letters without an uppercase form in the model: sharp s, and a CJK letter.
OtherLetters ==
    {"ß", "U+4E2D"}

\* The characters \d of the regular expression matches (Unicode decimal
\* digits): the ASCII digits, NKO DIGIT TWO, and ones and twos of the
\* Arabic-Indic, Devanagari and fullwidth digits.
DecimalDigits ==
    {"0", "1", "2", "3", "4", "5", "6", "7", "8", "9", "߂",
     "U+0661", "U+0662", "U+0967", "U+0968", "U+FF11", "U+FF12"}

\* The characters with str.isdigit: the decimal digits and the superscripts.
Digits ==
    DecimalDigits \cup {"¹", "²", "³"}

\* The characters str.strip and str.split remove and \s matches: all 29.
Whitespace ==
    {"\t", "\n", "", "\f", "\r", "", "",
     "", "", " ", "", " ", " ",
     "U+2000", "U+2001", "U+2002", "U+2003", "U+2004", "U+2005",
     "U+2006", "U+2007", "U+2008", "U+2009", "U+200A", "U+2028",
     "U+2029", "U+202F", "U+205F", "U+3000"}

CurrencySymbols ==
    {"$", "£", "€"}

Range(f) ==
    {f[i] : i \in DOMAIN f}

SetMin(S) ==
    CHOOSE m \in S : \A n \in S : m <= n

\* str.isupper, str.isdigit, str.isalpha on one character.
IsUpper(ch) ==
    ch \in Range(UpperLetters) \cup Range(UpperNumerals) \cup {DottedCapitalI}

IsDigit(ch) ==
    ch \in Digits

IsAlpha(ch) ==
    ch \in Range(UpperLetters) \cup Range(LowerLetters) \cup Range(TitlecaseLetters)
            \cup Range(TitlecaseLowered) \cup OtherLetters \cup {DottedCapitalI}

\* str.isdigit on a string: non-empty and all digits.
StrIsDigit(s) ==
    Len(s) > 0 /\ \A i \in 1..Len(s) : IsDigit(s[i])

\* str.lower on a character that lowers to one character.
LowerChar(ch) ==
    LET from == UpperLetters \o TitlecaseLetters \o UpperNumerals
        to == LowerLetters \o TitlecaseLowered \o LowerNumerals
    IN  IF ch \in Range(from)
        THEN to[CHOOSE i \in 1..Len(from) : from[i] = ch]
        ELSE ch

\* str.lower.
RECURSIVE StrLower(_)
StrLower(s) ==
    IF \A i \in 1..Len(s) : s[i] # DottedCapitalI
    THEN [i \in 1..Len(s) |-> LowerChar(s[i])]
    ELSE LET at == CHOOSE i \in 1..Len(s) :
                       s[i] = DottedCapitalI /\ \A j \in 1..(i - 1) : s[j] # DottedCapitalI
         IN  [i \in 1..(at - 1) |-> LowerChar(s[i])] \o DottedCapitalILowered
                 \o StrLower(SubSeq(s, at + 1, Len(s)))

\* str.strip with no argument.
Strip(s) ==
    IF \A i \in 1..Len(s) : s[i] \in Whitespace
    THEN <<>>
    ELSE LET first == CHOOSE i \in 1..Len(s) :
                          s[i] \notin Whitespace /\ \A j \in 1..(i - 1) : s[j] \in Whitespace
             last == CHOOSE i \in 1..Len(s) :
                         s[i] \notin Whitespace /\ \A j \in (i + 1)..Len(s) : s[j] \in Whitespace
         IN  SubSeq(s, first, last)

\* str.split(sep) for a one-character separator.
RECURSIVE SplitOn(_, _)
SplitOn(s, sep) ==
    IF \A i \in 1..Len(s) : s[i] # sep
    THEN <<s>>
    ELSE LET at == CHOOSE i \in 1..Len(s) : s[i] = sep /\ \A j \in 1..(i - 1) : s[j] # sep
         IN  <<SubSeq(s, 1, at - 1)>> \o SplitOn(SubSeq(s, at + 1, Len(s)), sep)

\* len(str.split()): the number of maximal runs of non-whitespace.
WordCount(s) ==
    Cardinality({i \in 1..Len(s) :
        s[i] \notin Whitespace /\ (i = 1 \/ s[i - 1] \in Whitespace)})

\* sub in s.
Contains(s, sub) ==
    \E i \in 1..(Len(s) - Len(sub) + 1) : SubSeq(s, i, i + Len(sub) - 1) = sub

\* sep.join(parts).
RECURSIVE Join(_, _)
Join(parts, sep) ==
    IF parts = <<>> THEN <<>>
    ELSE IF Len(parts) = 1 THEN parts[1]
    ELSE parts[1] \o sep \o Join(Tail(parts), sep)

---------------------------------------------------------------------------
\* Text literals.

\* 'ingredien' (9 characters)
IngredienWord ==
    <<"i", "n", "g", "r", "e", "d", "i", "e", "n">>

\* 'menu' (4 characters)
MenuWord ==
    <<"m", "e", "n", "u">>

\* 'Spicy Tacos' (11 characters)
LineSpicyTacos ==
    <<"S", "p", "i", "c", "y", " ", "T", "a", "c", "o", "s">>

\* 'Grilled chicken, salsa' (22 characters)
LineGrilled ==
    <<"G", "r", "i", "l", "l", "e", "d", " ", "c", "h", "i", "c", "k", "e", "n", ",", " ", "s",
    "a", "l", "s", "a">>

\* '$9.99' (5 characters)
LinePrice ==
    <<"$", "9", ".", "9", "9">>

\* 'Burger' (6 characters)
LineBurger ==
    <<"B", "u", "r", "g", "e", "r">>

\* 'Beef patty' (10 characters)
LineBeefPatty ==
    <<"B", "e", "e", "f", " ", "p", "a", "t", "t", "y">>

\* 'with fresh lime' (15 characters)
LineLower ==
    <<"w", "i", "t", "h", " ", "f", "r", "e", "s", "h", " ", "l", "i", "m", "e">>

\* 'Hi' (2 characters)
LineHi ==
    <<"H", "i">>

\* 'Lunch MENU' (10 characters)
LineMenu ==
    <<"L", "u", "n", "c", "h", " ", "M", "E", "N", "U">>

\* 'Ingredients' (11 characters)
LineIngredients ==
    <<"I", "n", "g", "r", "e", "d", "i", "e", "n", "t", "s">>

\* '2 pieces of crispy fried chicken served with fries and coleslaw' (63 characters)
LineLongDigit ==
    <<"2", " ", "p", "i", "e", "c", "e", "s", " ", "o", "f", " ", "c", "r", "i", "s", "p", "y",
    " ", "f", "r", "i", "e", "d", " ", "c", "h", "i", "c", "k", "e", "n", " ", "s", "e", "r",
    "v", "e", "d", " ", "w", "i", "t", "h", " ", "f", "r", "i", "e", "s", " ", "a", "n", "d",
    " ", "c", "o", "l", "e", "s", "l", "a", "w">>

\* 'Slow roasted pork shoulder with apple cider glaze and winter greens' (67 characters)
LineLongUpper ==
    <<"S", "l", "o", "w", " ", "r", "o", "a", "s", "t", "e", "d", " ", "p", "o", "r", "k", " ",
    "s", "h", "o", "u", "l", "d", "e", "r", " ", "w", "i", "t", "h", " ", "a", "p", "p", "l",
    "e", " ", "c", "i", "d", "e", "r", " ", "g", "l", "a", "z", "e", " ", "a", "n", "d", " ",
    "w", "i", "n", "t", "e", "r", " ", "g", "r", "e", "e", "n", "s">>

\* '  tomato sauce \t' (16 characters)
LinePadded ==
    <<" ", " ", "t", "o", "m", "a", "t", "o", " ", "s", "a", "u", "c", "e", " ", "\t">>

\* '2/3' (3 characters)
LineShortToken ==
    <<"2", "/", "3">>

\* '12.5 €' (6 characters)
LinePriceSuffix ==
    <<"1", "2", ".", "5", " ", "€">>

LineBlank ==
    <<>>

\* 'Édamame' (7 characters)
LineEdamame ==
    <<"É", "d", "a", "m", "a", "m", "e">>

\* 'steamed pods\xa0' (13 characters)
LineSteamed ==
    <<"s", "t", "e", "a", "m", "e", "d", " ", "p", "o", "d", "s", " ">>

\* '\x0c' (1 characters)
LineFormFeed ==
    <<"\f">>

\* '12\x0c€' (4 characters)
LineFormFeedPrice ==
    <<"1", "2", "\f", "€">>

\* '²nd course' (10 characters)
LineSuperscript ==
    <<"²", "n", "d", " ", "c", "o", "u", "r", "s", "e">>

\* '१२' (2 characters)
LineDevanagariPrice ==
    <<"U+0967", "U+0968">>

\* 'CRÈME MENU' (10 characters)
LineCremeMenu ==
    <<"C", "R", "È", "M", "E", " ", "M", "E", "N", "U">>

\* The five-line example of the structurer.
ExampleText ==
    Join(<<LineSpicyTacos, LineGrilled, LinePrice, LineBurger, LineBeefPatty>>, <<"\n">>)

\* A name with two description lines and a price, then a second name.
DescribedText ==
    Join(<<LineSpicyTacos, LineLower, LinePadded, LinePriceSuffix, LineLongDigit, LineLower>>,
         <<"\n">>)

\* Description-like lines and prices only.
OrphanText ==
    Join(<<LineLower, LinePrice, LinePadded, LineShortToken, LineLongUpper>>, <<"\n">>)

\* Names the post-filter drops, between names it keeps.
HeaderText ==
    Join(<<LineIngredients, LineLower, LineBurger, LineBlank, LineMenu, LinePadded, LineHi,
           LineBeefPatty>>, <<"\n">>)

\* Two lines of 60 characters or more: one starts with a digit, one with an
\* uppercase letter.
LongLinesText ==
    Join(<<LineLongDigit, LineLongUpper>>, <<"\n">>)

\* What pytesseract returns for a two-line image: the text ends in a form feed.
FormFeedText ==
    Join(<<LineBurger, LineBeefPatty, LineFormFeed>>, <<"\n">>)

\* Lines with letters, digits and whitespace outside ASCII.
AccentText ==
    Join(<<LineEdamame, LineSteamed, LineFormFeedPrice, LineSuperscript, LineFormFeed, LineLower,
           LineDevanagariPrice, LineCremeMenu, LinePadded, LineBurger>>, <<"\n">>)

\* The raw lines the inputs are built from.
Vocabulary ==
    {LineSpicyTacos, LinePrice, LineLower, LineHi, LineMenu, LinePadded, LineShortToken,
     LineBlank}

\* The raw OCR texts handed to structure_menu_text.
RawTexts ==
    {ExampleText, DescribedText, OrphanText, HeaderText, LongLinesText, FormFeedText,
     AccentText}
    \cup UNION {{Join(ls, <<"\n">>) : ls \in [1..n -> Vocabulary]} : n \in 0..MaxLines}

---------------------------------------------------------------------------
\* backend/image_ocr/app/main.py: structure_menu_text.

NameLengthLimit ==
    60

ShortTokenWords ==
    2

MinNameLength ==
    3

AllIn(s, a, b, S) ==
    \A k \in a..b : s[k] \in S

\* \d+(\.\d{1,2})? on s[a..b].
NumberMatch(s, a, b) ==
    \E d \in 1..(b - a + 1), f \in {0, 2, 3} :
        /\ d + f = b - a + 1
        /\ AllIn(s, a, a + d - 1, DecimalDigits)
        /\ f > 0 => (s[a + d] = "." /\ AllIn(s, a + d + 1, b, DecimalDigits))

\* [$£€]?\d+(\.\d{1,2})? on s[a..b].
PrefixPriceMatch(s, a, b) ==
    \E c \in 0..1 :
        /\ c = 1 => (a <= b /\ s[a] \in CurrencySymbols)
        /\ NumberMatch(s, a + c, b)

\* \d+(\.\d{1,2})?\s*[€$£]? on s[a..b].
SuffixPriceMatch(s, a, b) ==
    \E n \in a..b, c \in 0..1 :
        /\ n <= b - c
        /\ c = 1 => s[b] \in CurrencySymbols
        /\ AllIn(s, n + 1, b - c, Whitespace)
        /\ NumberMatch(s, a, n)

PriceMatch_NeverMatches(s) ==
    FALSE

\* price_pattern.match(line):
\* ^\s*([$£€]?\d+(\.\d{1,2})?|\d+(\.\d{1,2})?\s*[€$£]?)\s*$
PriceMatch(s) ==
    \E a \in 1..(Len(s) + 1) :
        /\ AllIn(s, 1, a - 1, Whitespace)
        /\ \E b \in (a - 1)..Len(s) :
            /\ AllIn(s, b + 1, Len(s), Whitespace)
            /\ PrefixPriceMatch(s, a, b) \/ SuffixPriceMatch(s, a, b)

\* The exclusion of line 112: at most two words and no letter at all.
IsShortNonLetterToken(line) ==
    /\ WordCount(line) <= ShortTokenWords
    /\ \A i \in 1..Len(line) : IsDigit(line[i]) \/ ~IsAlpha(line[i])

\* is_potential_dish_name of lines 109-113; `and` binds tighter than `or`.
IsPotentialDishName(line) ==
    /\ \/ (Len(line) < NameLengthLimit /\ IsUpper(line[1]))
       \/ IsDigit(line[1])
    /\ ~IsShortNonLetterToken(line)

Dish(name, description) ==
    [name |-> name, description |-> description]

\* The record appended when a pending name is finalized (lines 116-120, 130-131).
FinalizedDish(name, desc) ==
    Dish(Strip(name), Strip(desc))

AccumulateDescription_NoSeparator(desc, line) ==
    desc \o line

\* current_dish_desc += " " + line
AccumulateDescription(desc, line) ==
    desc \o <<" ">> \o line

\* Lines 134-136: a whitespace-only description becomes the empty string.
NormalizeDescription(dish) ==
    IF Strip(dish.description) = <<>> THEN Dish(dish.name, <<>>) ELSE dish

KeepName_LengthOnly(name) ==
    Len(name) > MinNameLength

\* The condition of line 143 on the stripped name.
KeepName(name) ==
    /\ Len(name) > MinNameLength
    /\ ~Contains(StrLower(name), IngredienWord)
    /\ ~Contains(StrLower(name), MenuWord)
    /\ ~StrIsDigit(name)

RECURSIVE FilterDishes_DescriptionMovesOn(_)
FilterDishes_DescriptionMovesOn(ds) ==
    IF ds = <<>> THEN <<>>
    ELSE IF KeepName(Strip(ds[1].name))
    THEN <<ds[1]>> \o FilterDishes_DescriptionMovesOn(Tail(ds))
    ELSE IF Len(ds) = 1 THEN <<>>
    ELSE FilterDishes_DescriptionMovesOn(
             <<Dish(ds[2].name,
                    Strip(AccumulateDescription(ds[1].description, ds[2].description)))>>
             \o Tail(Tail(ds)))

\* Lines 140-144: the filter loop.
RECURSIVE FilterDishes(_)
FilterDishes(ds) ==
    IF ds = <<>> THEN <<>>
    ELSE (IF KeepName(Strip(ds[1].name)) THEN <<ds[1]>> ELSE <<>>)
         \o FilterDishes(Tail(ds))

\* line = line.strip() of the line the loop is at.
CurrentLine ==
    Strip(lines[idx])

InLoop ==
    pc = "loop" /\ idx <= Len(lines)

OcrInit ==
    /\ raw_text \in RawTexts
    /\ \E stripped \in {Strip(raw_text)} : lines = SplitOn(stripped, "\n")
    /\ idx = 1
    /\ current_dish_name = <<>>
    /\ current_dish_desc = <<>>
    /\ dishes = <<>>
    /\ filtered_dishes = <<>>
    /\ pc = "loop"

\* The structurer is not running.
OcrQuiet ==
    /\ raw_text = <<>>
    /\ lines = <<>>
    /\ idx = 1
    /\ current_dish_name = <<>>
    /\ current_dish_desc = <<>>
    /\ dishes = <<>>
    /\ filtered_dishes = <<>>
    /\ pc = "off"

\* Lines 84-85: an empty line is skipped.
SkipEmptyLine ==
    /\ InLoop
    /\ CurrentLine = <<>>
    /\ idx' = idx + 1
    /\ UNCHANGED <<raw_text, lines, current_dish_name, current_dish_desc, dishes,
                   filtered_dishes, pc>>
    /\ UNCHANGED not_ocr_vars

\* Lines 93-96: a price line is skipped.
SkipPriceLine ==
    /\ InLoop
    /\ \E line \in {CurrentLine} :
        /\ line # <<>>
        /\ PriceMatch(line)
    /\ idx' = idx + 1
    /\ UNCHANGED <<raw_text, lines, current_dish_name, current_dish_desc, dishes,
                   filtered_dishes, pc>>
    /\ UNCHANGED not_ocr_vars

\* Lines 115-123: a name line finalizes the pending dish and starts a new one.
StartDish ==
    /\ InLoop
    /\ \E line \in {CurrentLine} :
        /\ line # <<>>
        /\ ~PriceMatch(line)
        /\ IsPotentialDishName(line)
        /\ current_dish_name' = line
    /\ dishes' = IF current_dish_name # <<>> /\ current_dish_desc # <<>>
                 THEN Append(dishes, FinalizedDish(current_dish_name, current_dish_desc))
                 ELSE IF current_dish_name # <<>>
                 THEN Append(dishes, Dish(Strip(current_dish_name), <<>>))
                 ELSE dishes
    /\ current_dish_desc' = <<>>
    /\ idx' = idx + 1
    /\ UNCHANGED <<raw_text, lines, filtered_dishes, pc>>
    /\ UNCHANGED not_ocr_vars

\* Lines 124-126: a non-name line is added to the pending dish's description.
AppendDescription ==
    /\ InLoop
    /\ current_dish_name # <<>>
    /\ \E line \in {CurrentLine} :
        /\ line # <<>>
        /\ ~PriceMatch(line)
        /\ ~IsPotentialDishName(line)
        /\ current_dish_desc' = AccumulateDescription(current_dish_desc, line)
    /\ idx' = idx + 1
    /\ UNCHANGED <<raw_text, lines, current_dish_name, dishes, filtered_dishes, pc>>
    /\ UNCHANGED not_ocr_vars

IgnoreOrphan_StartsRecord ==
    /\ InLoop
    /\ current_dish_name = <<>>
    /\ \E line \in {CurrentLine} :
        /\ line # <<>>
        /\ ~PriceMatch(line)
        /\ ~IsPotentialDishName(line)
        /\ current_dish_name' = line
    /\ idx' = idx + 1
    /\ UNCHANGED <<raw_text, lines, current_dish_desc, dishes, filtered_dishes, pc>>
    /\ UNCHANGED not_ocr_vars

\* Line 127: a non-name line with no pending name is ignored.
IgnoreOrphan ==
    /\ InLoop
    /\ current_dish_name = <<>>
    /\ \E line \in {CurrentLine} :
        /\ line # <<>>
        /\ ~PriceMatch(line)
        /\ ~IsPotentialDishName(line)
    /\ idx' = idx + 1
    /\ UNCHANGED <<raw_text, lines, current_dish_name, current_dish_desc, dishes,
                   filtered_dishes, pc>>
    /\ UNCHANGED not_ocr_vars

\* The list of finalized dishes once the loop has ended (lines 129-131).
FlushLast(ds, name, desc) ==
    IF name # <<>> THEN Append(ds, FinalizedDish(name, desc)) ELSE ds

\* Lines 129-146: flush the last dish, normalize descriptions, filter, return.
FinishStructuring ==
    /\ pc = "loop"
    /\ idx > Len(lines)
    /\ LET flushed == FlushLast(dishes, current_dish_name, current_dish_desc)
           normalized == [i \in 1..Len(flushed) |-> NormalizeDescription(flushed[i])]
       IN  /\ dishes' = normalized
           /\ filtered_dishes' = FilterDishes(normalized)
    /\ pc' = "done"
    /\ UNCHANGED <<raw_text, lines, idx, current_dish_name, current_dish_desc>>
    /\ UNCHANGED not_ocr_vars

OcrNext ==
    \/ SkipEmptyLine
    \/ SkipPriceLine
    \/ StartDish
    \/ AppendDescription
    \/ IgnoreOrphan
    \/ FinishStructuring

---------------------------------------------------------------------------
\* Properties of structure_menu_text.

Returned ==
    pc = "done"

\* The trimmed, non-empty lines that are not prices, in input order.
ContentLines ==
    SelectSeq([i \in 1..Len(lines) |-> Strip(lines[i])],
              LAMBDA l : l # <<>> /\ ~PriceMatch(l))

\* The positions of the name lines among the content lines.
NamePositions(cl) ==
    {i \in 1..Len(cl) : IsPotentialDishName(cl[i])}

\* The position of the first name line after position i, or the end of input.
NextNamePosition(cl, i) ==
    SetMin({j \in NamePositions(cl) : j > i} \cup {Len(cl) + 1})

\* The position of the k-th name line.
NthNamePosition(cl, k) ==
    CHOOSE i \in NamePositions(cl) : Cardinality({j \in NamePositions(cl) : j <= i}) = k

\* C1 as stated: the five-line example returns exactly the two records
\* {Spicy Tacos, Grilled chicken, salsa} and {Burger, Beef patty}.
C1_ExampleTwoRecords ==
    (Returned /\ raw_text = ExampleText)
        => filtered_dishes = <<Dish(LineSpicyTacos, LineGrilled), Dish(LineBurger, LineBeefPatty)>>

\* C1 amended: the five-line example returns four records, one per non-price
\* line and each with an empty description, in input order; the price line
\* appears in no name and no description.
C1_ExampleFourRecords ==
    (Returned /\ raw_text = ExampleText)
        => /\ filtered_dishes = <<Dish(LineSpicyTacos, <<>>), Dish(LineGrilled, <<>>),
                                  Dish(LineBurger, <<>>), Dish(LineBeefPatty, <<>>)>>
           /\ \A i \in DOMAIN filtered_dishes :
                /\ ~Contains(filtered_dishes[i].name, LinePrice)
                /\ ~Contains(filtered_dishes[i].description, LinePrice)

C1_ExampleReturned ==
    Returned /\ raw_text = ExampleText /\ Len(filtered_dishes) > 0

\* C2 as stated: a line becomes a dish name only if it is shorter than 60
\* characters, starts with an uppercase letter or a digit, is no price and is
\* no short token without letters; so no name has 60 or more characters.
C2_NameObeysAllConditions ==
    /\ current_dish_name # <<>> =>
        /\ Len(current_dish_name) < 60
        /\ IsUpper(current_dish_name[1]) \/ IsDigit(current_dish_name[1])
        /\ ~PriceMatch(current_dish_name)
        /\ ~IsShortNonLetterToken(current_dish_name)
    /\ \A i \in DOMAIN filtered_dishes : Len(filtered_dishes[i].name) < 60

\* C3: when no line is classified as a dish name, no record is ever started
\* or finalized and the returned list is empty.
C3_NoNameLineGivesEmpty ==
    \E cl \in {ContentLines} :
        NamePositions(cl) = {}
            => (current_dish_name = <<>> /\ dishes = <<>> /\ filtered_dishes = <<>>)

C3_OrphansOnlyReturned ==
    /\ Returned
    /\ \E cl \in {ContentLines} : NamePositions(cl) = {} /\ Len(cl) >= 2

\* C4: no returned name has 3 characters or fewer, contains "ingredien" or
\* "menu" once lowercased, or is all digits; and every finalized record whose
\* name has none of these defects is returned, in the order it was finalized.
C4_PostFilter ==
    Returned =>
        \E kept \in {{i \in DOMAIN dishes :
                        \E n \in {dishes[i].name} :
                            /\ Len(n) > 3
                            /\ ~Contains(StrLower(n), IngredienWord)
                            /\ ~Contains(StrLower(n), MenuWord)
                            /\ ~(n # <<>> /\ \A c \in 1..Len(n) : n[c] \in Digits)}} :
            /\ Len(filtered_dishes) = Cardinality(kept)
            /\ \A j \in DOMAIN filtered_dishes :
                \E i \in kept :
                    /\ filtered_dishes[j] = dishes[i]
                    /\ Cardinality({h \in kept : h <= i}) = j

C4_SomeDroppedSomeKept ==
    /\ Returned
    /\ Len(filtered_dishes) > 0
    /\ \E i \in DOMAIN dishes : Len(dishes[i].name) <= 3
    /\ \E i \in DOMAIN dishes : Contains(StrLower(dishes[i].name), MenuWord)

\* C5: the finalized records are one per name line, in input order, and the
\* description of each is the content lines between its name line and the
\* next name line (or the end of input) joined by single spaces.
C5_DescriptionIsLinesBetweenNames ==
    Returned =>
        \E cl \in {ContentLines} :
            /\ Len(dishes) = Cardinality(NamePositions(cl))
            /\ \A k \in DOMAIN dishes :
                \E i \in {NthNamePosition(cl, k)} :
                    /\ dishes[k].name = cl[i]
                    /\ dishes[k].description
                         = Join(SubSeq(cl, i + 1, NextNamePosition(cl, i) - 1), <<" ">>)

C5_TwoLineDescription ==
    /\ Returned
    /\ Len(dishes) >= 2
    /\ \E cl \in {ContentLines} :
        \E i \in 1..(Len(cl) - 2) :
            /\ dishes[1].name = cl[i]
            /\ dishes[1].description = cl[i + 1] \o <<" ">> \o cl[i + 2]

\* The positions of the name lines that pass the post-filter.
KeptPositions(cl) ==
    {i \in NamePositions(cl) : KeepName(cl[i])}

\* The k-th smallest position of the set.
NthPosition(positions, k) ==
    CHOOSE i \in positions : Cardinality({j \in positions : j <= i}) = k

\* The content lines a dropped record accumulated.
DroppedDescriptionLines(cl) ==
    {j \in 1..Len(cl) :
        \E i \in NamePositions(cl) \ KeptPositions(cl) :
            i < j /\ j < NextNamePosition(cl, i)}

\* C14: the returned records are, in input order, one per name line that
\* passes the post-filter; each returned name is the trimmed text of an input
\* line; and each returned description is made of the content lines between
\* its own name line and the next name line only, so a line accumulated by a
\* dropped record is in no returned description, neither that of the record
\* before nor that of the record after, unless the same text is also among
\* the lines of that record.
C14_OrderKeptAndDroppedDescriptionsLost ==
    Returned =>
        \E cl \in {ContentLines} :
            \E kept \in {KeptPositions(cl)} :
                /\ Len(filtered_dishes) = Cardinality(kept)
                /\ \A k \in DOMAIN filtered_dishes :
                    \E i \in {NthPosition(kept, k)} :
                        /\ filtered_dishes[k].name = cl[i]
                        /\ \E n \in DOMAIN lines :
                                filtered_dishes[k].name = Strip(lines[n])
                        /\ \E own \in {Join(SubSeq(cl, i + 1, NextNamePosition(cl, i) - 1),
                                              <<" ">>)} :
                            /\ filtered_dishes[k].description = own
                            /\ \A j \in DroppedDescriptionLines(cl) :
                                    Contains(filtered_dishes[k].description, cl[j])
                                        => Contains(own, cl[j])

\* A record with a description is dropped between two returned records.
C14_DroppedBetweenReturned ==
    /\ Returned
    /\ Len(filtered_dishes) >= 2
    /\ \E cl \in {ContentLines} :
        \E j \in DroppedDescriptionLines(cl) :
            /\ \E i \in KeptPositions(cl) : i < j
            /\ \E i \in KeptPositions(cl) : i > j

---------------------------------------------------------------------------
\* backend/nlu_enhancement/app/main.py: parsed JSON values.
\* A value is a record with the same four fields whatever its kind, and an
\* object maps every key of Keys to a value or to Absent.

Keys ==
    {"dishes", "name", "description", "dish_name", "image_prompt"}

Absent ==
    [kind |-> "absent", str |-> "", members |-> <<>>, items |-> <<>>]

JNull ==
    [kind |-> "null", str |-> "", members |-> <<>>, items |-> <<>>]

JString(s) ==
    [kind |-> "string", str |-> s, members |-> <<>>, items |-> <<>>]

JArray(xs) ==
    [kind |-> "array", str |-> "", members |-> <<>>, items |-> xs]

JObject(m) ==
    [kind |-> "object", str |-> "", members |-> m, items |-> <<>>]

NoMembers ==
    [k \in Keys |-> Absent]

\* isinstance(v, dict), isinstance(v, list), key in v.
IsDict(v) ==
    v.kind = "object"

IsList(v) ==
    v.kind = "array"

Has(v, key) ==
    v.members[key].kind # "absent"

\* Tuples over S of length at most n.
SeqsUpTo(S, n) ==
    UNION {[1..k -> S] : k \in 0..n}

\* Objects whose keys are any subset of {k1, k2}; the values are strings or
\* null.
ObjectsOver(k1, V1, k2, V2) ==
    {JObject([NoMembers EXCEPT ![k1] = a, ![k2] = b]) :
        a \in {Absent, JNull} \cup {JString(x) : x \in V1},
        b \in {Absent, JNull} \cup {JString(x) : x \in V2}}

DishNames ==
    {"Taco", "Soup"}

\* The elements a dishes array may hold: dish-like objects and a bare string.
DishItems ==
    ObjectsOver("name", DishNames, "description", {"spicy"}) \cup {JString("Taco")}

\* The elements a prompts array may hold.
PromptItems ==
    ObjectsOver("dish_name", {"Taco"}, "image_prompt", {"a photo"}) \cup {JString("Taco")}

Scalars ==
    {JNull, JString("sorry")}

\* What json.loads may return for the structuring call.
StructureResponses ==
    LET under == {JArray(xs) : xs \in SeqsUpTo(DishItems, MaxItems)}
                 \cup (DishItems \ {JString("Taco")}) \cup Scalars
    IN  {JObject([NoMembers EXCEPT !["dishes"] = d]) : d \in under}
        \cup (DishItems \ {JString("Taco")})
        \cup {JArray(xs) : xs \in SeqsUpTo(DishItems, 1)}
        \cup Scalars

\* What json.loads may return for the prompt-generation call.
PromptResponses ==
    {JArray(xs) : xs \in SeqsUpTo(PromptItems, MaxItems)}
    \cup (PromptItems \ {JString("Taco")})
    \cup Scalars

---------------------------------------------------------------------------
\* call_llm and the two LLM steps.

\* What the chat-completion call and json.loads do: a parsed value, an
\* openai.APIError with its status code, or any other exception.
LlmJson(v) ==
    [kind |-> "json", status |-> 0, value |-> v]

LlmApiError(status) ==
    [kind |-> "api_error", status |-> status, value |-> Absent]

\* An openai.APIError without a status_code attribute: APIConnectionError and
\* APITimeoutError, raised when the API was not reached.
LlmApiConnectionError ==
    [kind |-> "api_error_no_status", status |-> 0, value |-> Absent]

LlmException ==
    [kind |-> "exception", status |-> 0, value |-> Absent]

ApiErrorStatuses ==
    {401, 429}

LlmFailures ==
    {LlmApiError(st) : st \in ApiErrorStatuses} \cup {LlmApiConnectionError, LlmException}

\* Line 68 builds the client with its default settings, under which the
\* client sends the request of one create call again after a connection
\* failure or a retryable status; the outcome of the call is the outcome of
\* the last sending. Whether a request was sent again before the call ended.
SentAgain ==
    BOOLEAN

\* How a function call ends: a return value, an HTTPException, or an
\* exception no handler of the function catches.
ReturnValue(v) ==
    [kind |-> "ok", status |-> 0, text |-> "", embedded |-> Absent, value |-> v]

HTTPException(status, text, embedded) ==
    [kind |-> "http", status |-> status, text |-> text, embedded |-> embedded, value |-> <<>>]

Uncaught(exception) ==
    [kind |-> "uncaught", status |-> 0, text |-> exception, embedded |-> Absent,
     value |-> <<>>]

NotRun ==
    [kind |-> "none", status |-> 0, text |-> "", embedded |-> Absent, value |-> <<>>]

InternalServerError ==
    500

\* call_llm, lines 63-87. For an APIError without status_code the handler of
\* line 84 raises AttributeError at line 85, inside the handler, where the
\* clause of line 86 does not apply: the AttributeError leaves call_llm.
call_llm(o) ==
    IF o.kind = "json" THEN ReturnValue(o.value)
    ELSE IF o.kind = "api_error"
    THEN HTTPException(o.status, "OpenAI API Error", Absent)
    ELSE IF o.kind = "api_error_no_status" THEN Uncaught("AttributeError")
    ELSE HTTPException(InternalServerError, "An unexpected error occurred with LLM call",
                       Absent)

DishStructured(name, description) ==
    [name |-> name, description |-> description]

DishPrompt(dish_name, image_prompt) ==
    [dish_name |-> dish_name, image_prompt |-> image_prompt]

\* The validation of a field declared `str` (lines 46-52): only a JSON string
\* passes; for null, an array or an object the constructor raises
\* pydantic's ValidationError, which is a ValueError.
IsStr(v) ==
    v.kind = "string"

\* The first line of the ValidationError for n invalid fields of the model.
ValidationError(n, model) ==
    (IF n = 1 THEN "1 validation error for " ELSE "2 validation errors for ") \o model

\* except ValueError of line 155-157.
StructureParseError(text, embedded) ==
    HTTPException(InternalServerError, "Error parsing LLM structured output: " \o text,
                  embedded)

\* except ValueError of line 205-206.
PromptParseError(text, embedded) ==
    HTTPException(InternalServerError, "Error parsing LLM prompt output: " \o text, embedded)

\* Lines 144-153: the loop over the items of the dishes list.
RECURSIVE StructureItems(_, _)
StructureItems(items, structured_dishes) ==
    IF items = <<>> THEN ReturnValue(structured_dishes)
    ELSE LET item == Head(items)
         IN  IF ~IsDict(item) \/ ~Has(item, "name")
             THEN StructureParseError(
                      "LLM returned an invalid dish item (missing 'name' or not an object): ",
                      item)
             ELSE LET name == item.members["name"]
                      description == IF Has(item, "description")
                                     THEN item.members["description"]
                                     ELSE JString("")
                      invalid == {v \in {"name", "description"} :
                                     ~IsStr(IF v = "name" THEN name ELSE description)}
                  IN  IF invalid # {}
                      THEN StructureParseError(
                               ValidationError(Cardinality(invalid), "DishStructured"), Absent)
                      ELSE StructureItems(Tail(items),
                               Append(structured_dishes,
                                      DishStructured(name.str, description.str)))

RepairDishes_NeverWraps(dishes0, llm_response) ==
    IF IsDict(dishes0)
    THEN StructureParseError(
             "LLM returned a single object that does not match expected dish structure: ",
             llm_response)
    ELSE IF ~IsList(dishes0)
    THEN StructureParseError("LLM did not return a JSON array after correction attempt.",
                             Absent)
    ELSE ReturnValue(dishes0.items)

\* Lines 132-141: a single dish object is wrapped in a list; anything that
\* is still no list is a ValueError.
RepairDishes(dishes0, llm_response) ==
    IF IsDict(dishes0)
    THEN IF Has(dishes0, "name") /\ Has(dishes0, "description")
         THEN ReturnValue(<<dishes0>>)
         ELSE StructureParseError(
                  "LLM returned a single object that does not match expected dish structure: ",
                  llm_response)
    ELSE IF ~IsList(dishes0)
    THEN StructureParseError("LLM did not return a JSON array after correction attempt.",
                             Absent)
    ELSE ReturnValue(dishes0.items)

\* extract_and_structure_dishes_with_llm, lines 125-157, on the outcome o of
\* the LLM call. llm_response["dishes"] raises KeyError on an object without
\* the key and TypeError on a list, a string or None; neither is a ValueError.
extract_and_structure_dishes_with_llm(o) ==
    LET called == call_llm(o)
        llm_response == called.value
    IN  IF called.kind # "ok" THEN called
        ELSE IF ~IsDict(llm_response) THEN Uncaught("TypeError")
        ELSE IF ~Has(llm_response, "dishes") THEN Uncaught("KeyError")
        ELSE LET repaired == RepairDishes(llm_response.members["dishes"], llm_response)
             IN  IF repaired.kind # "ok" THEN repaired
                 ELSE StructureItems(repaired.value, <<>>)

\* Lines 199-204: the loop over the items of the prompts list.
RECURSIVE PromptItemsLoop(_, _)
PromptItemsLoop(items, generated_prompts) ==
    IF items = <<>> THEN ReturnValue(generated_prompts)
    ELSE LET item == Head(items)
         IN  IF ~IsDict(item) \/ ~Has(item, "dish_name") \/ ~Has(item, "image_prompt")
             THEN PromptParseError(
                      "LLM returned an invalid prompt item (missing 'dish_name' or 'image_prompt' or not an object): ",
                      item)
             ELSE LET invalid == {k \in {"dish_name", "image_prompt"} :
                                     ~IsStr(item.members[k])}
                  IN  IF invalid # {}
                      THEN PromptParseError(
                               ValidationError(Cardinality(invalid), "DishPrompt"), Absent)
                      ELSE PromptItemsLoop(Tail(items),
                               Append(generated_prompts,
                                      DishPrompt(item.members["dish_name"].str,
                                                 item.members["image_prompt"].str)))

RepairPrompts_NeverWraps(llm_response) ==
    IF IsDict(llm_response)
    THEN PromptParseError(
             "LLM returned a single object that does not match expected prompt structure: ",
             llm_response)
    ELSE IF ~IsList(llm_response)
    THEN PromptParseError("LLM did not return a JSON array after correction attempt.",
                          Absent)
    ELSE ReturnValue(llm_response.items)

\* Lines 188-196: a single prompt object is wrapped in a list; anything that
\* is still no list is a ValueError.
RepairPrompts(llm_response) ==
    IF IsDict(llm_response)
    THEN IF Has(llm_response, "dish_name") /\ Has(llm_response, "image_prompt")
         THEN ReturnValue(<<llm_response>>)
         ELSE PromptParseError(
                  "LLM returned a single object that does not match expected prompt structure: ",
                  llm_response)
    ELSE IF ~IsList(llm_response)
    THEN PromptParseError("LLM did not return a JSON array after correction attempt.",
                          Absent)
    ELSE ReturnValue(llm_response.items)

\* generate_prompts_with_llm, lines 183-206, on the outcome o of the LLM call.
generate_prompts_with_llm(o) ==
    LET called == call_llm(o)
    IN  IF called.kind # "ok" THEN called
        ELSE LET repaired == RepairPrompts(called.value)
             IN  IF repaired.kind # "ok" THEN repaired
                 ELSE PromptItemsLoop(repaired.value, <<>>)

---------------------------------------------------------------------------
\* POST /process_menu_text/, lines 210-226.

NoResponse ==
    [status |-> 0, media_type |-> "", fields |-> {}, structured_menu_data |-> <<>>,
     processed_dishes |-> <<>>]

\* NLUResponse(structured_menu_data=..., processed_dishes=...), status 200.
NLUResponse(structured_menu_data, processed_dishes) ==
    [status |-> 200, media_type |-> "application/json",
     fields |-> {"structured_menu_data", "processed_dishes"},
     structured_menu_data |-> structured_menu_data, processed_dishes |-> processed_dishes]

\* The answer to a request whose handler raised: for an HTTPException the
\* JSON object {"detail": ...} with its status; for an exception nothing
\* caught the server's plain text "Internal Server Error" with status 500 and
\* no JSON field.
ErrorResponse(failure) ==
    IF failure.kind = "http"
    THEN [status |-> failure.status, media_type |-> "application/json",
          fields |-> {"detail"}, structured_menu_data |-> <<>>, processed_dishes |-> <<>>]
    ELSE [status |-> InternalServerError, media_type |-> "text/plain", fields |-> {},
          structured_menu_data |-> <<>>, processed_dishes |-> <<>>]

ResponseAfterPrompts_PartialResult(structured_dishes, processed) ==
    IF processed.kind = "ok"
    THEN NLUResponse(structured_dishes, processed.value)
    ELSE [status |-> 200, media_type |-> "application/json",
          fields |-> {"structured_menu_data"},
          structured_menu_data |-> structured_dishes, processed_dishes |-> <<>>]

\* Lines 221-226: the response once generate_prompts_with_llm has ended.
ResponseAfterPrompts(structured_dishes, processed) ==
    IF processed.kind = "ok"
    THEN NLUResponse(structured_dishes, processed.value)
    ELSE ErrorResponse(processed)

\* No handler of another request is waiting for a call.
NoOtherHandlers ==
    [awaiting_structure |-> 0, awaiting_prompts |-> 0]

NluInit ==
    /\ nlu_pc = "structure"
    /\ llm_calls = <<>>
    /\ llm_outcomes = <<>>
    /\ structure_result = NotRun
    /\ prompt_result = NotRun
    /\ nlu_response = NoResponse
    /\ other_handlers = NoOtherHandlers
    /\ llm_resent = FALSE

\* The NLU service handles no request.
NluQuiet ==
    /\ nlu_pc = "off"
    /\ llm_calls = <<>>
    /\ llm_outcomes = <<>>
    /\ structure_result = NotRun
    /\ prompt_result = NotRun
    /\ nlu_response = NoResponse
    /\ other_handlers = NoOtherHandlers
    /\ llm_resent = FALSE

\* Lines 218, 126, 67-69: the handler runs up to the await of the structuring
\* call; the request is sent and the handler gives the event loop back.
\* llm_calls logs the handler's calls of client.chat.completions.create;
\* llm_resent tells whether the client has sent the request of one of them
\* again.
IssueStructureCall ==
    /\ nlu_pc = "structure"
    /\ llm_calls' = Append(llm_calls, "structure")
    /\ nlu_pc' = "awaiting_structure"
    /\ UNCHANGED <<llm_outcomes, structure_result, prompt_result, nlu_response,
                   other_handlers, llm_resent>>
    /\ UNCHANGED not_nlu_vars

\* Lines 69-87, 127-157, 218, then 221, 160-184, 67-69: the structuring call
\* is answered and the handler resumes. It parses the answer and, with no
\* await in between, either goes on to the await of the prompt-generation
\* call, whose request is sent, or fails and the request is answered.
StructureStep ==
    /\ nlu_pc = "awaiting_structure"
    /\ \E o \in {LlmJson(v) : v \in StructureResponses} \cup LlmFailures :
        \E result \in {extract_and_structure_dishes_with_llm(o)} :
            /\ llm_outcomes' = Append(llm_outcomes, o)
            /\ \E again \in SentAgain : llm_resent' = (llm_resent \/ again)
            /\ structure_result' = result
            /\ IF result.kind = "ok"
               THEN /\ llm_calls' = Append(llm_calls, "prompts")
                    /\ nlu_pc' = "awaiting_prompts"
                    /\ UNCHANGED nlu_response
               ELSE /\ nlu_pc' = "responded"
                    /\ nlu_response' = ErrorResponse(result)
                    /\ UNCHANGED llm_calls
    /\ UNCHANGED <<prompt_result, other_handlers>>
    /\ UNCHANGED not_nlu_vars

\* Lines 69-87, 186-206, 221-226: the prompt-generation call is answered and
\* the handler resumes: the parsing of the answer, then the response.
PromptStep ==
    /\ nlu_pc = "awaiting_prompts"
    /\ \E o \in {LlmJson(v) : v \in PromptResponses} \cup LlmFailures :
        \E result \in {generate_prompts_with_llm(o)} :
            /\ llm_outcomes' = Append(llm_outcomes, o)
            /\ \E again \in SentAgain : llm_resent' = (llm_resent \/ again)
            /\ prompt_result' = result
            /\ nlu_response' = ResponseAfterPrompts(structure_result.value, result)
    /\ nlu_pc' = "responded"
    /\ UNCHANGED <<llm_calls, structure_result, other_handlers>>
    /\ UNCHANGED not_nlu_vars

\* The handler of another request runs from one await to the next on the same
\* event loop: it sends its structuring call, and when a call is answered it
\* either sends its prompt-generation call or ends. Its locals are its own:
\* the handlers share no variable, so other_handlers only counts the handlers
\* waiting for each of the two calls.
OtherHandlerStep ==
    /\ nlu_pc # "off"
    /\ \/ /\ other_handlers.awaiting_structure + other_handlers.awaiting_prompts
                < MaxOtherRequests
          /\ other_handlers' = [other_handlers EXCEPT !.awaiting_structure = @ + 1]
       \/ /\ other_handlers.awaiting_structure > 0
          /\ \/ other_handlers' = [other_handlers EXCEPT !.awaiting_structure = @ - 1,
                                                          !.awaiting_prompts = @ + 1]
             \/ other_handlers' = [other_handlers EXCEPT !.awaiting_structure = @ - 1]
       \/ /\ other_handlers.awaiting_prompts > 0
          /\ other_handlers' = [other_handlers EXCEPT !.awaiting_prompts = @ - 1]
    /\ UNCHANGED <<nlu_pc, llm_calls, llm_outcomes, structure_result, prompt_result,
                   nlu_response, llm_resent>>
    /\ UNCHANGED not_nlu_vars

NluNext ==
    \/ IssueStructureCall
    \/ StructureStep
    \/ PromptStep
    \/ OtherHandlerStep

---------------------------------------------------------------------------
\* Properties of the two LLM steps and of POST /process_menu_text/.

\* The structuring call has been made and json.loads returned a value.
StructureParsed ==
    Len(llm_outcomes) >= 1 /\ llm_outcomes[1].kind = "json"

\* The prompt-generation call has been made and json.loads returned a value.
PromptsParsed ==
    Len(llm_outcomes) = 2 /\ llm_outcomes[2].kind = "json"

\* C6 as stated: a structuring response that is itself a single object with
\* name and description yields the one-element list holding that dish.
C6_TopLevelDishObjectIsWrapped ==
    StructureParsed =>
        \E v \in {llm_outcomes[1].value} :
            (IsDict(v) /\ Has(v, "name") /\ Has(v, "description"))
                => /\ structure_result.kind = "ok"
                   /\ structure_result.value
                        = <<[name |-> v.members["name"].str,
                             description |-> v.members["description"].str]>>

\* C6 amended: when the value under the "dishes" key of the structuring
\* response is a single object with name and description, the step ends as
\* it does for the same object wrapped in an array under "dishes": with the
\* one-element list holding that dish when both values are strings, and with
\* HTTP 500 and no record when one of them is not a string.
C6_DishObjectUnderDishesIsWrapped ==
    StructureParsed =>
        \E v \in {llm_outcomes[1].value} :
            (IsDict(v) /\ Has(v, "dishes")) =>
                \E d \in {v.members["dishes"]} :
                    (IsDict(d) /\ Has(d, "name") /\ Has(d, "description"))
                        => /\ structure_result
                                = extract_and_structure_dishes_with_llm(
                                      LlmJson(JObject([NoMembers EXCEPT
                                          !["dishes"] = JArray(<<d>>)])))
                           /\ IF d.members["name"].kind = "string"
                                    /\ d.members["description"].kind = "string"
                              THEN /\ structure_result.kind = "ok"
                                   /\ structure_result.value
                                        = <<[name |-> d.members["name"].str,
                                             description |-> d.members["description"].str]>>
                              ELSE /\ structure_result.kind = "http"
                                   /\ structure_result.status = 500
                                   /\ structure_result.value = <<>>

C6_SingleDishUnderDishes ==
    /\ StructureParsed
    /\ IsDict(llm_outcomes[1].value)
    /\ IsDict(llm_outcomes[1].value.members["dishes"])
    /\ Has(llm_outcomes[1].value.members["dishes"], "name")
    /\ Has(llm_outcomes[1].value.members["dishes"], "description")
    /\ Len(structure_result.value) = 1

\* C7 as stated: a prompt response that is a single object with dish_name and
\* image_prompt yields the one-element list holding that record, as the same
\* object wrapped in an array does; an object lacking either key, and any
\* value that is neither object nor array, ends in HTTP 500 with no records.
C7_PromptObjectWrappedOrRejected ==
    PromptsParsed =>
        \E v \in {llm_outcomes[2].value} :
            /\ (IsDict(v) /\ Has(v, "dish_name") /\ Has(v, "image_prompt"))
                => /\ prompt_result.kind = "ok"
                   /\ prompt_result.value
                        = <<[dish_name |-> v.members["dish_name"].str,
                             image_prompt |-> v.members["image_prompt"].str]>>
                   /\ prompt_result = generate_prompts_with_llm(LlmJson(JArray(<<v>>)))
            /\ (\/ IsDict(v) /\ ~(Has(v, "dish_name") /\ Has(v, "image_prompt"))
                \/ ~IsDict(v) /\ ~IsList(v))
                => /\ prompt_result.kind = "http"
                   /\ prompt_result.status = 500
                   /\ prompt_result.value = <<>>
                   /\ nlu_response.status = 500
                   /\ nlu_response.processed_dishes = <<>>

\* C7 amended: a prompt response that is a single object with dish_name and
\* image_prompt ends as the same object wrapped in an array does: with the
\* one-element list holding that record when both values are strings, and
\* with HTTP 500 and no records when one of them is not a string; an object
\* lacking either key, and any value that is neither object nor array, ends
\* in HTTP 500 with no records.
C7_PromptObjectTreatedAsWrapped ==
    PromptsParsed =>
        \E v \in {llm_outcomes[2].value} :
            /\ (IsDict(v) /\ Has(v, "dish_name") /\ Has(v, "image_prompt"))
                => /\ prompt_result = generate_prompts_with_llm(LlmJson(JArray(<<v>>)))
                   /\ IF v.members["dish_name"].kind = "string"
                            /\ v.members["image_prompt"].kind = "string"
                      THEN /\ prompt_result.kind = "ok"
                           /\ prompt_result.value
                                = <<[dish_name |-> v.members["dish_name"].str,
                                     image_prompt |-> v.members["image_prompt"].str]>>
                      ELSE /\ prompt_result.kind = "http"
                           /\ prompt_result.status = 500
                           /\ prompt_result.value = <<>>
                           /\ nlu_response.status = 500
                           /\ nlu_response.processed_dishes = <<>>
            /\ (\/ IsDict(v) /\ ~(Has(v, "dish_name") /\ Has(v, "image_prompt"))
                \/ ~IsDict(v) /\ ~IsList(v))
                => /\ prompt_result.kind = "http"
                   /\ prompt_result.status = 500
                   /\ prompt_result.value = <<>>
                   /\ nlu_response.status = 500
                   /\ nlu_response.processed_dishes = <<>>

C7_SinglePromptObject ==
    /\ PromptsParsed
    /\ IsDict(llm_outcomes[2].value)
    /\ Has(llm_outcomes[2].value, "dish_name")
    /\ Has(llm_outcomes[2].value, "image_prompt")
    /\ Len(prompt_result.value) = 1
    /\ nlu_response.status = 200

\* The elements of a list that are no object or lack one of the keys.
Offending(items, required) ==
    {i \in 1..Len(items) : ~IsDict(items[i]) \/ \E k \in required : ~Has(items[i], k)}

\* A step that met an offending element ended in HTTP 500 with the first
\* such element in the detail and with no records.
RejectsOffending(items, required, result) ==
    Offending(items, required) # {}
        => /\ result.kind = "http"
           /\ result.status = 500
           /\ result.embedded = items[SetMin(Offending(items, required))]
           /\ result.value = <<>>

\* C8 as stated: in both steps an element that is no object or lacks a
\* required key ends the step in HTTP 500 with that element in the detail and
\* no records, and no parsed response ends the step in an uncaught exception.
C8_ShapeMismatchIsHttpFailure ==
    /\ StructureParsed =>
        /\ structure_result.kind \in {"ok", "http"}
        /\ structure_result.kind = "http" => structure_result.status = 500
        /\ \E v \in {llm_outcomes[1].value} :
            (IsDict(v) /\ IsList(v.members["dishes"]))
                => RejectsOffending(v.members["dishes"].items, {"name"}, structure_result)
    /\ PromptsParsed =>
        /\ prompt_result.kind \in {"ok", "http"}
        /\ prompt_result.kind = "http" => prompt_result.status = 500
        /\ \E v \in {llm_outcomes[2].value} :
            IsList(v) => RejectsOffending(v.items, {"dish_name", "image_prompt"},
                                          prompt_result)

\* The handler's own calls: the structuring call first and the prompt call
\* second, each made at most once and answered at most once; the prompt call
\* only after structuring succeeded; no call after a failed one; no response
\* before the handler has ended.
HandlerCallsInOrder ==
    /\ llm_calls \in {<<>>, <<"structure">>, <<"structure", "prompts">>}
    /\ Len(llm_outcomes)
         = Len(llm_calls) - (IF nlu_pc \in {"awaiting_structure", "awaiting_prompts"}
                             THEN 1 ELSE 0)
    /\ nlu_pc # "responded" => nlu_response = NoResponse
    /\ Len(llm_calls) = 2 => structure_result.kind = "ok"
    /\ structure_result.kind \notin {"ok", "none"}
        => (nlu_pc = "responded" /\ Len(llm_calls) = 1)
    /\ prompt_result.kind \notin {"ok", "none"} => nlu_pc = "responded"

\* The request has ended and one of its two steps failed.
RequestFailed ==
    nlu_pc = "responded" /\ (structure_result.kind # "ok" \/ prompt_result.kind # "ok")

\* The step that failed: the structuring step, or else the prompt step.
FailedStep ==
    IF structure_result.kind # "ok" THEN structure_result ELSE prompt_result
    /\ prompt_result.kind = "uncaught"
    /\ llm_resent
    /\ nlu_response.status = InternalServerError
    /\ other_handlers # NoOtherHandlers

---------------------------------------------------------------------------
\* backend/Image_Gen/main.py: the image service.

\* 'segmind/SSD-1B' (14 characters)
IdSSD1B ==
    <<"s", "e", "g", "m", "i", "n", "d", "/", "S", "S", "D", "-", "1", "B">>

\* 'sdxl-lightning-4step' (20 characters)
SubLightning4 ==
    <<"s", "d", "x", "l", "-", "l", "i", "g", "h", "t", "n", "i", "n", "g", "-", "4", "s", "t",
    "e", "p">>

\* 'sdxl-lightning-8step' (20 characters)
SubLightning8 ==
    <<"s", "d", "x", "l", "-", "l", "i", "g", "h", "t", "n", "i", "n", "g", "-", "8", "s", "t",
    "e", "p">>

\* 'sdxl-turbo' (10 characters)
SubTurbo ==
    <<"s", "d", "x", "l", "-", "t", "u", "r", "b", "o">>

\* 'stable-diffusion-xl-base-1.0' (28 characters)
SubXLBase ==
    <<"s", "t", "a", "b", "l", "e", "-", "d", "i", "f", "f", "u", "s", "i", "o", "n", "-", "x",
    "l", "-", "b", "a", "s", "e", "-", "1", ".", "0">>

\* 'stabilityai/sdxl-lightning-4step-unet' (37 characters)
IdLightning4 ==
    <<"s", "t", "a", "b", "i", "l", "i", "t", "y", "a", "i", "/", "s", "d", "x", "l", "-", "l",
    "i", "g", "h", "t", "n", "i", "n", "g", "-", "4", "s", "t", "e", "p", "-", "u", "n", "e",
    "t">>

\* 'ByteDance/sdxl-lightning-8step' (30 characters)
IdLightning8 ==
    <<"B", "y", "t", "e", "D", "a", "n", "c", "e", "/", "s", "d", "x", "l", "-", "l", "i", "g",
    "h", "t", "n", "i", "n", "g", "-", "8", "s", "t", "e", "p">>

\* 'stabilityai/sdxl-turbo' (22 characters)
IdTurbo ==
    <<"s", "t", "a", "b", "i", "l", "i", "t", "y", "a", "i", "/", "s", "d", "x", "l", "-", "t",
    "u", "r", "b", "o">>

\* 'stabilityai/stable-diffusion-xl-base-1.0' (40 characters)
IdXLBase ==
    <<"s", "t", "a", "b", "i", "l", "i", "t", "y", "a", "i", "/", "s", "t", "a", "b", "l", "e",
    "-", "d", "i", "f", "f", "u", "s", "i", "o", "n", "-", "x", "l", "-", "b", "a", "s", "e",
    "-", "1", ".", "0">>

\* 'runwayml/stable-diffusion-v1-5' (30 characters)
IdUnknown ==
    <<"r", "u", "n", "w", "a", "y", "m", "l", "/", "s", "t", "a", "b", "l", "e", "-", "d", "i",
    "f", "f", "u", "s", "i", "o", "n", "-", "v", "1", "-", "5">>

\* 'segmind/SSD-1B-sdxl-turbo' (25 characters)
IdSSD1BSuffix ==
    <<"s", "e", "g", "m", "i", "n", "d", "/", "S", "S", "D", "-", "1", "B", "-", "s", "d", "x",
    "l", "-", "t", "u", "r", "b", "o">>

\* 'x/sdxl-turbo-sdxl-lightning-8step' (33 characters)
IdTwoMatches ==
    <<"x", "/", "s", "d", "x", "l", "-", "t", "u", "r", "b", "o", "-", "s", "d", "x", "l", "-",
    "l", "i", "g", "h", "t", "n", "i", "n", "g", "-", "8", "s", "t", "e", "p">>

\* 'segmind/ssd-1b' (14 characters)
IdLowerSSD ==
    <<"s", "e", "g", "m", "i", "n", "d", "/", "s", "s", "d", "-", "1", "b">>

\* The values the configuration constant MODEL_ID is given.
ModelIds ==
    {IdSSD1B, IdLightning4, IdLightning8, IdTurbo, IdXLBase, IdUnknown, IdSSD1BSuffix,
     IdTwoMatches, IdLowerSSD}

DEFAULT_HEIGHT ==
    1024

DEFAULT_WIDTH ==
    1024

Prompts ==
    {"taco", "soup"}

NegativePrompts ==
    {"", "blurry"}

\* ImageGenerationRequest, lines 26-28.
ImageGenerationRequests ==
    [prompt : Prompts, negative_prompt : NegativePrompts]

Hyperparameters(num_inference_steps, guidance_scale) ==
    [num_inference_steps |-> num_inference_steps, guidance_scale |-> guidance_scale]

SelectParameters_NoFallback(model_id) ==
    IF model_id = IdSSD1B THEN Hyperparameters(20, "7.0")
    ELSE IF Contains(model_id, SubLightning4) THEN Hyperparameters(4, "0.0")
    ELSE IF Contains(model_id, SubLightning8) THEN Hyperparameters(8, "0.0")
    ELSE IF Contains(model_id, SubTurbo) THEN Hyperparameters(1, "0.0")
    ELSE IF Contains(model_id, SubXLBase) THEN Hyperparameters(30, "7.5")
    ELSE Hyperparameters(0, "0.0")

\* Lines 85-113: num_inference_steps and guidance_scale for the model; a
\* guidance scale is written as its decimal literal.
SelectParameters(model_id) ==
    IF model_id = IdSSD1B THEN Hyperparameters(20, "7.0")
    ELSE IF Contains(model_id, SubLightning4) THEN Hyperparameters(4, "0.0")
    ELSE IF Contains(model_id, SubLightning8) THEN Hyperparameters(8, "0.0")
    ELSE IF Contains(model_id, SubTurbo) THEN Hyperparameters(1, "0.0")
    ELSE IF Contains(model_id, SubXLBase) THEN Hyperparameters(30, "7.5")
    ELSE Hyperparameters(25, "7.5")

\* The keyword arguments of the pipeline call of lines 130-137.
PipelineCall(request, parameters) ==
    [prompt |-> request.prompt,
     negative_prompt |-> request.negative_prompt,
     num_inference_steps |-> parameters.num_inference_steps,
     guidance_scale |-> parameters.guidance_scale,
     height |-> DEFAULT_HEIGHT,
     width |-> DEFAULT_WIDTH]

\* How inference and encoding end: an image, torch.cuda.OutOfMemoryError, or
\* any other exception.
InferenceOutcomes ==
    {"image", "out_of_memory", "error", "encoding_error"}

ImageResponse(endpoint, status, fields, model_loaded) ==
    [endpoint |-> endpoint, status |-> status, fields |-> fields,
     model_loaded |-> model_loaded]

GenerationResponse_CatchAllFirst(outcome) ==
    IF outcome = "image" THEN ImageResponse("generate_image", 200, {"image_base64"}, FALSE)
    ELSE ImageResponse("generate_image", 500, {"detail"}, FALSE)

\* Lines 128-153: the response to a request whose inference ended in outcome.
\* The handler of torch.cuda.OutOfMemoryError comes before the handler of
\* Exception; "error" is any other exception of the pipeline call,
\* "encoding_error" one of the PNG and base64 encoding of lines 140-142.
GenerationResponse(outcome) ==
    IF outcome = "image" THEN ImageResponse("generate_image", 200, {"image_base64"}, FALSE)
    ELSE IF outcome = "out_of_memory"
    THEN ImageResponse("generate_image", 507, {"detail"}, FALSE)
    ELSE ImageResponse("generate_image", 500, {"detail"}, FALSE)

\* The request tasks of the server, by arrival number. A task records what
\* its handler did: the inference calls it made, how inference ended and the
\* response it sent.
TaskIds ==
    1..MaxRequests

NoTask ==
    [endpoint |-> "", phase |-> "none", request |-> [prompt |-> "", negative_prompt |-> ""],
     calls |-> 0, outcome |-> "none", status |-> 0, fields |-> {},
     model_loaded |-> FALSE]

NewTask(endpoint, request) ==
    [NoTask EXCEPT !.endpoint = endpoint, !.phase = "pending", !.request = request]

\* The task once its handler has answered.
Answered(task, outcome, response) ==
    [task EXCEPT !.phase = "done", !.outcome = outcome, !.status = response.status,
                 !.fields = response.fields, !.model_loaded = response.model_loaded]

ImgInit ==
    /\ MODEL_ID \in ModelIds
    /\ pipeline = "None"
    /\ server = "starting"
    /\ pipeline_calls = <<>>
    /\ img_responses = <<>>
    /\ tasks = [r \in TaskIds |-> NoTask]
    /\ loop_holder = 0

\* The image service is not running.
ImgQuiet ==
    /\ MODEL_ID = IdSSD1B
    /\ pipeline = "None"
    /\ server = "off"
    /\ pipeline_calls = <<>>
    /\ img_responses = <<>>
    /\ tasks = <<>>
    /\ loop_holder = 0

\* load_model, lines 39-70: the startup handler loads the pipeline.
LoadModel ==
    /\ server = "starting"
    /\ loop_holder = 0
    /\ pipeline' = "loaded"
    /\ server' = "serving"
    /\ UNCHANGED <<MODEL_ID, pipeline_calls, img_responses, tasks, loop_holder>>
    /\ UNCHANGED not_img_vars

\* load_model, lines 71-73: loading raised, before or after the global was
\* assigned; the RuntimeError ends the startup.
LoadModelFails ==
    /\ server = "starting"
    /\ loop_holder = 0
    /\ pipeline' \in {"None", "loaded"}
    /\ server' = "failed"
    /\ UNCHANGED <<MODEL_ID, pipeline_calls, img_responses, tasks, loop_holder>>
    /\ UNCHANGED not_img_vars

\* The handlers can be called before the startup handler has run.
Accepting ==
    server \in {"starting", "serving"}

\* A client sends a request; the server creates the task of its handler.
\* Requests arrive at any time, also while a handler is running.
Arrive ==
    /\ Accepting
    /\ \E r \in TaskIds :
        /\ tasks[r].phase = "none"
        /\ \A q \in 1..(r - 1) : tasks[q].phase # "none"
        /\ \/ \E request \in ImageGenerationRequests :
                tasks' = [tasks EXCEPT ![r] = NewTask("generate_image", request)]
           \/ tasks' = [tasks EXCEPT ![r] = NewTask("health", NoTask.request)]
    /\ UNCHANGED <<MODEL_ID, pipeline, server, pipeline_calls, img_responses, loop_holder>>
    /\ UNCHANGED not_img_vars

\* The event loop starts a pending handler only when no handler holds it.
CanStart(r) ==
    /\ Accepting
    /\ loop_holder = 0
    /\ tasks[r].phase = "pending"

HandlerHoldsLoop_RunsInThreadpool ==
    FALSE

\* generate_image is declared `async def` (line 76) and calls the pipeline
\* synchronously, with no await in lines 80-153: from its first line to its
\* return the handler does not give the event loop back.
HandlerHoldsLoop ==
    TRUE

GenerateImageNotLoaded_LoadsOnDemand ==
    /\ pipeline = "None"
    /\ \E r \in TaskIds :
        /\ CanStart(r)
        /\ tasks[r].endpoint = "generate_image"
        /\ \E response \in {ImageResponse("generate_image", 503, {"detail"}, FALSE)} :
            /\ img_responses' = Append(img_responses, response)
            /\ tasks' = [tasks EXCEPT ![r] = Answered(tasks[r], "none", response)]
    /\ pipeline' = "loaded"
    /\ UNCHANGED <<MODEL_ID, server, pipeline_calls, loop_holder>>
    /\ UNCHANGED not_img_vars

\* generate_image, lines 80-81: no pipeline, HTTP 503.
GenerateImageNotLoaded ==
    /\ pipeline = "None"
    /\ \E r \in TaskIds :
        /\ CanStart(r)
        /\ tasks[r].endpoint = "generate_image"
        /\ \E response \in {ImageResponse("generate_image", 503, {"detail"}, FALSE)} :
            /\ img_responses' = Append(img_responses, response)
            /\ tasks' = [tasks EXCEPT ![r] = Answered(tasks[r], "none", response)]
    /\ UNCHANGED <<MODEL_ID, pipeline, server, pipeline_calls, loop_holder>>
    /\ UNCHANGED not_img_vars

\* generate_image, lines 83-137: the parameters are chosen and the pipeline
\* is called.
GenerateImage ==
    /\ pipeline # "None"
    /\ \E r \in TaskIds :
        /\ CanStart(r)
        /\ tasks[r].endpoint = "generate_image"
        /\ pipeline_calls' = Append(pipeline_calls,
                                    PipelineCall(tasks[r].request,
                                                 SelectParameters(MODEL_ID)))
        /\ tasks' = [tasks EXCEPT ![r].phase = "inferring", ![r].calls = @ + 1]
        /\ loop_holder' = IF HandlerHoldsLoop THEN r ELSE 0
    /\ UNCHANGED <<MODEL_ID, pipeline, server, img_responses>>
    /\ UNCHANGED not_img_vars

\* generate_image, lines 137-153: inference and encoding end, the handler
\* returns the image or raises the HTTPException.
FinishGeneration ==
    /\ \E r \in TaskIds, outcome \in InferenceOutcomes :
        /\ tasks[r].phase = "inferring"
        /\ img_responses' = Append(img_responses, GenerationResponse(outcome))
        /\ tasks' = [tasks EXCEPT ![r] = Answered(tasks[r], outcome,
                                                  GenerationResponse(outcome))]
        /\ loop_holder' = IF loop_holder = r THEN 0 ELSE loop_holder
    /\ UNCHANGED <<MODEL_ID, pipeline, server, pipeline_calls>>
    /\ UNCHANGED not_img_vars

\* health_check, lines 156-160.
HealthCheck ==
    /\ \E r \in TaskIds :
        /\ CanStart(r)
        /\ tasks[r].endpoint = "health"
        /\ \E response \in {ImageResponse("health", 200, {"status", "model_loaded"},
                                          pipeline # "None")} :
            /\ img_responses' = Append(img_responses, response)
            /\ tasks' = [tasks EXCEPT ![r] = Answered(tasks[r], "none", response)]
    /\ UNCHANGED <<MODEL_ID, pipeline, server, pipeline_calls, loop_holder>>
    /\ UNCHANGED not_img_vars

ImgNext ==
    \/ LoadModel
    \/ LoadModelFails
    \/ Arrive
    \/ GenerateImageNotLoaded
    \/ GenerateImage
    \/ FinishGeneration
    \/ HealthCheck

---------------------------------------------------------------------------
\* Properties of generate_image.

\* The model identifier matches none of the known entries.
UnmatchedModel ==
    /\ MODEL_ID # IdSSD1B
    /\ \A sub \in {SubLightning4, SubLightning8, SubTurbo, SubXLBase} :
        ~Contains(MODEL_ID, sub)

\* C10: the entries are tried in the order SSD-1B (exact), lightning-4step,
\* lightning-8step, turbo, xl-base-1.0 and the first match decides; every
\* inference call for an unmatched identifier gets num_inference_steps = 25
\* and guidance_scale = 7.5, never the placeholders 0 and 0.0.
C10_FirstMatchThenFallback ==
    \A i \in DOMAIN pipeline_calls :
        \E c \in {pipeline_calls[i]} :
            \E given \in {<<c.num_inference_steps, c.guidance_scale>>} :
                /\ MODEL_ID = IdSSD1B => given = <<20, "7.0">>
                /\ (MODEL_ID # IdSSD1B /\ Contains(MODEL_ID, SubLightning4))
                    => given = <<4, "0.0">>
                /\ (MODEL_ID # IdSSD1B /\ ~Contains(MODEL_ID, SubLightning4)
                        /\ Contains(MODEL_ID, SubLightning8))
                    => given = <<8, "0.0">>
                /\ (MODEL_ID # IdSSD1B /\ ~Contains(MODEL_ID, SubLightning4)
                        /\ ~Contains(MODEL_ID, SubLightning8) /\ Contains(MODEL_ID, SubTurbo))
                    => given = <<1, "0.0">>
                /\ (MODEL_ID # IdSSD1B /\ ~Contains(MODEL_ID, SubLightning4)
                        /\ ~Contains(MODEL_ID, SubLightning8) /\ ~Contains(MODEL_ID, SubTurbo)
                        /\ Contains(MODEL_ID, SubXLBase))
                    => given = <<30, "7.5">>
                /\ UnmatchedModel
                    => (given = <<25, "7.5">> /\ c.num_inference_steps # 0
                        /\ c.guidance_scale # "0.0")

C10_UnmatchedModelInferred ==
    /\ UnmatchedModel
    /\ pipeline_calls # <<>>
    /\ \E i \in DOMAIN img_responses : img_responses[i].status = 200

\* The requests to generate_image that have been answered.
AnsweredGenerations ==
    {r \in DOMAIN tasks : tasks[r].endpoint = "generate_image" /\ tasks[r].phase = "done"}

\* C11: an accelerator out-of-memory failure of the inference call is answered
\* with status 507, every other exception of inference or encoding with status
\* 500, no failure returns an image_base64 payload, and status 507 is the
\* answer to no other failure.
C11_OutOfMemoryIs507OthersAre500 ==
    \A r \in AnsweredGenerations :
        /\ tasks[r].outcome = "out_of_memory" => tasks[r].status = 507
        /\ tasks[r].outcome \in {"error", "encoding_error"} => tasks[r].status = 500
        /\ tasks[r].outcome # "image" => "image_base64" \notin tasks[r].fields
        /\ tasks[r].status = 507 => tasks[r].outcome = "out_of_memory"

C11_BothFailuresAnswered ==
    \E r, q \in AnsweredGenerations :
        /\ tasks[r].outcome = "out_of_memory" /\ tasks[r].status = 507
        /\ tasks[q].outcome = "encoding_error" /\ tasks[q].status = 500

\* The handler of request r runs in this step and finds the pipeline unset.
StartsUnloaded(r) ==
    /\ tasks[r].phase = "pending"
    /\ tasks'[r].phase # "pending"
    /\ pipeline = "None"

\* C12: the pipeline is written only by the startup step load_model, at most
\* once, and no step of a request handler modifies it; a generate_image
\* request that finds the pipeline unset is answered with status 503 without
\* an inference call; and health_check reports model_loaded = true exactly
\* when the pipeline is set.
C12_PipelineWrittenOnceAtStartup ==
    [][/\ pipeline' # pipeline
            => (pipeline = "None" /\ server = "starting" /\ server' # "starting")
       /\ server # "starting" => (server' # "starting" /\ pipeline' = pipeline)
       /\ (tasks' # tasks \/ img_responses' # img_responses \/ pipeline_calls' # pipeline_calls)
            => pipeline' = pipeline
       /\ \A r \in DOMAIN tasks :
            /\ (StartsUnloaded(r) /\ tasks[r].endpoint = "generate_image")
                => /\ tasks'[r].phase = "done"
                   /\ tasks'[r].status = 503
                   /\ tasks'[r].calls = 0
                   /\ pipeline_calls' = pipeline_calls
            /\ (tasks[r].endpoint = "health" /\ tasks[r].phase = "pending"
                    /\ tasks'[r].phase = "done")
                => /\ tasks'[r].status = 200
                   /\ tasks'[r].model_loaded = (pipeline # "None")
      ]_vars

C12_RejectedThenLoadedAndReported ==
    /\ pipeline = "loaded"
    /\ server = "serving"
    /\ \E r, q \in DOMAIN tasks :
        /\ tasks[r].endpoint = "generate_image" /\ tasks[r].status = 503 /\ tasks[r].calls = 0
        /\ tasks[q].endpoint = "health" /\ tasks[q].phase = "done" /\ tasks[q].model_loaded

\* The requests whose handler is inside the pipeline call.
Inferring ==
    {r \in DOMAIN tasks : tasks[r].phase = "inferring"}

\* The requests to generate_image that were accepted: the handler found the
\* pipeline set.
AcceptedGenerations ==
    Inferring \cup {r \in AnsweredGenerations : tasks[r].status # 503}

\* C13: under every interleaving of request arrivals and handler steps, at
\* most one inference call on the pipeline is in progress, and every accepted
\* request makes exactly one inference call, with its own prompt: the calls
\* are as many as the accepted requests, a failed call is not repeated, and a
\* waiting or rejected request has made none.
C13_OneInferenceAtATimeOnePerRequest ==
    /\ Cardinality(Inferring) <= 1
    /\ \A r \in DOMAIN tasks :
        tasks[r].calls = IF r \in AcceptedGenerations THEN 1 ELSE 0
    /\ Len(pipeline_calls) = Cardinality(AcceptedGenerations)
    /\ \A i \in DOMAIN pipeline_calls :
        \E r \in AcceptedGenerations :
            /\ pipeline_calls[i].prompt = tasks[r].request.prompt
            /\ pipeline_calls[i].negative_prompt = tasks[r].request.negative_prompt

C13_RequestWaitsDuringInference ==
    \E r, q \in DOMAIN tasks :
        /\ tasks[r].phase = "inferring"
        /\ tasks[q].phase = "pending"
        /\ tasks[q].endpoint = "generate_image"
        /\ pipeline = "loaded"
        /\ loop_holder = r

---------------------------------------------------------------------------
\* Specifications, one per service.

InitOCR ==
    OcrInit /\ NluQuiet /\ ImgQuiet

SpecOCR ==
    InitOCR /\ [][OcrNext]_vars

InitNLU ==
    NluInit /\ OcrQuiet /\ ImgQuiet

SpecNLU ==
    InitNLU /\ [][NluNext]_vars

InitImage ==
    ImgInit /\ OcrQuiet /\ NluQuiet

SpecImage ==
    InitImage /\ [][ImgNext]_vars

TypeOK ==
    /\ idx \in 1..(Len(lines) + 1)
    /\ pc \in {"loop", "done", "off"}
    /\ nlu_pc \in {"structure", "awaiting_structure", "awaiting_prompts",
                  "responded", "off"}
    /\ llm_resent \in BOOLEAN
    /\ other_handlers \in [awaiting_structure : 0..MaxOtherRequests,
                         awaiting_prompts : 0..MaxOtherRequests]
    /\ Len(llm_calls) <= 2
    /\ pipeline \in {"None", "loaded"}
    /\ server \in {"starting", "serving", "failed", "off"}
    /\ Len(pipeline_calls) <= MaxRequests
    /\ Len(img_responses) <= MaxRequests
    /\ loop_holder \in 0..MaxRequests

====
